---- MODULE Spec2Model ----
\* A state-machine model of examples/selection_sort.cpp: main() reads a test-case
\* count, and for each test case reads an array, selection-sorts it in place and
\* prints it on one line.  Each action is one step of main(); the array vec is a
\* function on the source's indices 0..n-1; the output is the character stream
\* written to cout.
EXTENDS Integers, Sequences, FiniteSets, TLC

\* ---------------------------------------------------------------- bounds
\* Specification Spec: test-case count and array length.
MaxT == 1
MaxN == 3
\* Specifications MultiSpec and FairSpec (several test cases, shorter arrays).
MaxCases == 2
MaxLen == 2
\* The integers the input may hold: negative, zero, positive, one and two digits.
Values == {-10, 0, 7}
\* The integers the input may hold in the runs with several test cases.
MultiValues == {-10, 7}

VARIABLES
    pc,        \* position in main()
    t,         \* int t          (line 7)
    tcount,    \* history: the test-case count read at line 8
    n,         \* int n          (line 11)
    vec,       \* vector<int> vec (line 13), a function on 0..n-1
    i,         \* the loop index i of the loop being executed (lines 15, 21, 37)
    j,         \* inner scan index (line 24)
    minIndex,  \* int minIndex   (line 23)
    out,       \* the characters written to cout so far
    cases,     \* history: the arrays read from cin so far, one per test case
    passes,    \* history: outer passes executed in the current test case
    exchanges, \* history: exchange steps (lines 31-33) in the current test case
    prints,    \* history: print-loop iterations in the current test case
    touched    \* history: the indices of vec the last step read or wrote

vars == <<pc, t, tcount, n, vec, i, j, minIndex, out, cases, passes, exchanges, prints, touched>>

\* ---------------------------------------------------------------- helpers
\* operator<<(int): the decimal text of x, as a sequence of characters.
DigitChar(d) == <<"0", "1", "2", "3", "4", "5", "6", "7", "8", "9">>[d + 1]

RECURSIVE Digits(_)
Digits(x) == IF x < 10 THEN <<DigitChar(x)>>
             ELSE Digits(x \div 10) \o <<DigitChar(x % 10)>>

ToDecimal(x) == IF x < 0 THEN <<"-">> \o Digits(0 - x) ELSE Digits(x)

\* vector<int> vec(n): n value-initialised (zero) elements.
NewVec(len) == [k \in 0..(len - 1) |-> 0]

\* Variants of the definitions below, each changed the way a slip in the code
\* would change it; the properties are checked to tell the code from them.
OuterCondToN(ii, len) == ii < len
InnerCondOffByOne(jj, len) == jj <= len
PrintSepAlways(ii, len) == ii < len
ScanStepLE(v, jj, m) == IF v[jj] <= v[m] THEN jj ELSE m
ScanStepGT(v, jj, m) == IF v[jj] > v[m] THEN jj ELSE m
ScanStepNE(v, jj, m) == IF v[jj] # v[m] THEN jj ELSE m
ExchangeNoTemp(v, ii, m) ==
    LET v1 == [v EXCEPT ![ii] = v[m]]
    IN  [v1 EXCEPT ![m] = v1[ii]]
EmitEndlMissing(o) == o

\* Loop conditions (lines 9, 15, 21, 24, 37) and the separator test (line 40).
WhileCond(tt) == tt # 0
ReadCond(ii, len) == ii < len
OuterCond(ii, len) == ii < len - 1
InnerCond(jj, len) == jj < len
PrintCond(ii, len) == ii < len
PrintSep(ii, len) == ii < len - 1

\* Lines 26-29: the new minIndex after comparing position jj.
ScanStep(v, jj, m) == IF v[jj] < v[m] THEN jj ELSE m

\* Lines 31-33: temp = vec[i]; vec[i] = vec[minIndex]; vec[minIndex] = temp.
Exchange(v, ii, m) ==
    LET temp == v[ii]
        v1 == [v EXCEPT ![ii] = v[m]]
    IN  [v1 EXCEPT ![m] = temp]

\* Lines 24-30 as a whole: the inner scan from jj with running minimum index m.
RECURSIVE Scan(_, _, _, _)
Scan(v, len, jj, m) ==
    IF InnerCond(jj, len) THEN Scan(v, len, jj + 1, ScanStep(v, jj, m)) ELSE m

\* Lines 21-34 as a whole: the outer passes from ii on.
RECURSIVE SortFrom(_, _, _)
SortFrom(v, len, ii) ==
    IF OuterCond(ii, len)
    THEN SortFrom(Exchange(v, ii, Scan(v, len, ii + 1, ii)), len, ii + 1)
    ELSE v

SortLoops(v, len) == SortFrom(v, len, 0)

\* Line 43: cout << endl.
EmitEndl(o) == Append(o, "\n")

InRange(S) == S \subseteq DOMAIN vec

\* ---------------------------------------------------------------- Init
Init ==
    /\ pc = "read_t"
    /\ t = 0
    /\ tcount = 0
    /\ n = 0
    /\ vec = NewVec(0)
    /\ i = 0
    /\ j = 0
    /\ minIndex = 0
    /\ out = <<>>
    /\ cases = <<>>
    /\ passes = 0
    /\ exchanges = 0
    /\ prints = 0
    /\ touched = {}

\* ---------------------------------------------------------------- actions
\* Line 8: cin >> t.
ReadT(maxT) ==
    /\ pc = "read_t"
    /\ \E T \in 0..maxT :
        /\ t' = T
        /\ tcount' = T
    /\ pc' = "while"
    /\ touched' = {}
    /\ UNCHANGED <<n, vec, i, j, minIndex, out, cases, passes, exchanges, prints>>

\* Line 9: while (t--), condition true.
WhileEnter ==
    /\ pc = "while"
    /\ WhileCond(t)
    /\ t' = t - 1
    /\ pc' = "read_n"
    /\ touched' = {}
    /\ UNCHANGED <<tcount, n, vec, i, j, minIndex, out, cases, passes, exchanges, prints>>

\* Line 9: while (t--), condition false; line 45: return 0.
WhileExit ==
    /\ pc = "while"
    /\ ~WhileCond(t)
    /\ t' = t - 1
    /\ pc' = "done"
    /\ touched' = {}
    /\ UNCHANGED <<tcount, n, vec, i, j, minIndex, out, cases, passes, exchanges, prints>>

\* Lines 11-15: cin >> n; vector<int> vec(n); int i = 0.
ReadN(maxN) ==
    /\ pc = "read_n"
    /\ \E len \in 0..maxN :
        /\ n' = len
        /\ vec' = NewVec(len)
    /\ i' = 0
    /\ cases' = Append(cases, <<>>)
    /\ passes' = 0
    /\ exchanges' = 0
    /\ prints' = 0
    /\ pc' = "read_elem"
    /\ touched' = {}
    /\ UNCHANGED <<t, tcount, j, minIndex, out>>

\* Lines 15-18: cin >> vec[i]; i++.
ReadElem(vals) ==
    /\ pc = "read_elem"
    /\ ReadCond(i, n)
    /\ touched' = {i}
    /\ IF InRange({i})
       THEN /\ \E x \in vals :
                /\ vec' = [vec EXCEPT ![i] = x]
                /\ cases' = [cases EXCEPT ![Len(cases)] = Append(@, x)]
            /\ i' = i + 1
            /\ pc' = pc
       ELSE /\ pc' = "ub"
            /\ UNCHANGED <<vec, cases, i>>
    /\ UNCHANGED <<t, tcount, n, j, minIndex, out, passes, exchanges, prints>>

\* Line 15 false; line 21: int i = 0.
ReadExit ==
    /\ pc = "read_elem"
    /\ ~ReadCond(i, n)
    /\ i' = 0
    /\ pc' = "outer"
    /\ touched' = {}
    /\ UNCHANGED <<t, tcount, n, vec, j, minIndex, out, cases, passes, exchanges, prints>>

\* Line 21 true; lines 23-24: int minIndex = i; int j = i + 1.
OuterEnter ==
    /\ pc = "outer"
    /\ OuterCond(i, n)
    /\ minIndex' = i
    /\ j' = i + 1
    /\ passes' = passes + 1
    /\ pc' = "inner"
    /\ touched' = {}
    /\ UNCHANGED <<t, tcount, n, vec, i, out, cases, exchanges, prints>>

\* Line 21 false: the sort loops are finished.
OuterExit ==
    /\ pc = "outer"
    /\ ~OuterCond(i, n)
    /\ pc' = "sorted"
    /\ touched' = {}
    /\ UNCHANGED <<t, tcount, n, vec, i, j, minIndex, out, cases, passes, exchanges, prints>>

\* Lines 24-30: one iteration of the inner scan; j++.
InnerStep ==
    /\ pc = "inner"
    /\ InnerCond(j, n)
    /\ touched' = {j, minIndex}
    /\ IF InRange({j, minIndex})
       THEN /\ minIndex' = ScanStep(vec, j, minIndex)
            /\ j' = j + 1
            /\ pc' = pc
       ELSE /\ pc' = "ub"
            /\ UNCHANGED <<minIndex, j>>
    /\ UNCHANGED <<t, tcount, n, vec, i, out, cases, passes, exchanges, prints>>

\* Line 24 false: the scan of pass i is finished.
InnerExit ==
    /\ pc = "inner"
    /\ ~InnerCond(j, n)
    /\ pc' = "swap"
    /\ touched' = {}
    /\ UNCHANGED <<t, tcount, n, vec, i, j, minIndex, out, cases, passes, exchanges, prints>>

\* Lines 31-33: the exchange; line 21: i++.
Swap ==
    /\ pc = "swap"
    /\ touched' = {i, minIndex}
    /\ IF InRange({i, minIndex})
       THEN /\ vec' = Exchange(vec, i, minIndex)
            /\ exchanges' = exchanges + 1
            /\ i' = i + 1
            /\ pc' = "outer"
       ELSE /\ pc' = "ub"
            /\ UNCHANGED <<vec, exchanges, i>>
    /\ UNCHANGED <<t, tcount, n, j, minIndex, out, cases, passes, prints>>

\* Line 37: int i = 0.
PrintInit ==
    /\ pc = "sorted"
    /\ i' = 0
    /\ pc' = "print"
    /\ touched' = {}
    /\ UNCHANGED <<t, tcount, n, vec, j, minIndex, out, cases, passes, exchanges, prints>>

\* Lines 37-42: cout << vec[i]; if (i < n - 1) cout << " "; i++.
PrintElem ==
    /\ pc = "print"
    /\ PrintCond(i, n)
    /\ touched' = {i}
    /\ IF InRange({i})
       THEN /\ out' = out \o ToDecimal(vec[i])
                          \o (IF PrintSep(i, n) THEN <<" ">> ELSE <<>>)
            /\ prints' = prints + 1
            /\ i' = i + 1
            /\ pc' = pc
       ELSE /\ pc' = "ub"
            /\ UNCHANGED <<out, prints, i>>
    /\ UNCHANGED <<t, tcount, n, vec, j, minIndex, cases, passes, exchanges>>

\* Line 37 false; line 43: cout << endl; back to line 9.
PrintEndl ==
    /\ pc = "print"
    /\ ~PrintCond(i, n)
    /\ out' = EmitEndl(out)
    /\ pc' = "while"
    /\ touched' = {}
    /\ UNCHANGED <<t, tcount, n, vec, i, j, minIndex, cases, passes, exchanges, prints>>

Step ==
    \/ WhileEnter
    \/ WhileExit
    \/ ReadExit
    \/ OuterEnter
    \/ OuterExit
    \/ InnerStep
    \/ InnerExit
    \/ Swap
    \/ PrintInit
    \/ PrintElem
    \/ PrintEndl

Next == ReadT(MaxT) \/ ReadN(MaxN) \/ ReadElem(Values) \/ Step

MultiNext == ReadT(MaxCases) \/ ReadN(MaxLen) \/ ReadElem(MultiValues) \/ Step

Spec == Init /\ [][Next]_vars

MultiSpec == Init /\ [][MultiNext]_vars

\* main() is one sequential thread with no suspension points: whenever a step is
\* possible, one is taken.
FairSpec == MultiSpec /\ WF_vars(MultiNext)

\* ---------------------------------------------------------------- properties
\* The array of the current test case as read from cin, and vec as a sequence.
Cur == cases[Len(cases)]
ToSeq(v, len) == [k \in 1..len |-> v[k - 1]]
FromSeq(s) == [k \in 0..(Len(s) - 1) |-> s[k + 1]]
VecSeq == ToSeq(vec, n)

Count(s, x) == Cardinality({k \in 1..Len(s) : s[k] = x})
Range(s) == {s[k] : k \in 1..Len(s)}
PermOf(r, s) ==
    /\ Len(r) = Len(s)
    /\ \A x \in Range(r) \cup Range(s) : Count(r, x) = Count(s, x)
IsSorted(s) == \A k \in 1..(Len(s) - 1) : s[k] <= s[k + 1]

\* The sorted form of s, defined without reference to any algorithm.
SortedForm(s) ==
    CHOOSE r \in [1..Len(s) -> Range(s)] : IsSorted(r) /\ PermOf(r, s)

\* The elements of s in decimal, single spaces between them, none after the last.
RECURSIVE JoinSp(_)
JoinSp(s) ==
    IF s = <<>> THEN <<>>
    ELSE IF Len(s) = 1 THEN ToDecimal(s[1])
    ELSE ToDecimal(s[1]) \o <<" ">> \o JoinSp(Tail(s))

LineOf(s) == JoinSp(s) \o <<"\n">>

\* The output expected for the test cases cs, one line each, in order.
RECURSIVE Expected(_)
Expected(cs) ==
    IF cs = <<>> THEN <<>>
    ELSE Expected(SubSeq(cs, 1, Len(cs) - 1)) \o LineOf(SortedForm(cs[Len(cs)]))

Newlines(o) == {k \in 1..Len(o) : o[k] = "\n"}
LastNewline(o) == CHOOSE k \in Newlines(o) : \A m \in Newlines(o) : m <= k
\* The characters after the last newline of o.
CurLine(o) ==
    IF Newlines(o) = {} THEN o ELSE SubSeq(o, LastNewline(o) + 1, Len(o))
\* The last complete line of o, its newline included (o ends with a newline).
LastLine(o) == CurLine(SubSeq(o, 1, Len(o) - 1)) \o <<o[Len(o)]>>

\* A test case has just been sorted and printed.
CaseDone == pc = "while" /\ cases # <<>>
InCase == pc \in {"read_elem", "outer", "inner", "swap", "sorted", "print"}
InSort == pc \in {"outer", "inner", "swap", "sorted"}

\* C1: when the selection-sort loops finish, vec is a permutation of the array
\* that was read: same length, and every value occurs as often as in the input.
C1_Permutation == pc = "sorted" => PermOf(VecSeq, Cur)

\* An input with a duplicate whose order the sort had to change.
C1_Witness ==
    /\ pc = "sorted"
    /\ n = 3
    /\ VecSeq # Cur
    /\ \E x \in Range(Cur) : Count(Cur, x) = 2
    /\ exchanges = 2

\* C2: when the selection-sort loops finish, vec is non-decreasing:
\* vec[k] <= vec[k+1] for every k with 0 <= k < n-1.
C2_NonDecreasing ==
    pc = "sorted" => \A k \in 0..(n - 2) : vec[k] <= vec[k + 1]

\* A descending input with a negative value and a duplicate, now sorted.
C2_Witness ==
    /\ pc = "sorted"
    /\ Cur = <<7, -10, -10>>
    /\ VecSeq = <<-10, -10, 7>>

\* The output so far is exactly the lines of the test cases already finished:
\* a test case is read only when every earlier one is printed to completion.
C3_Ordered ==
    /\ pc \in {"while", "read_n", "done"} =>
          /\ out = Expected(cases)
          /\ pc = "while" => Len(cases) + t = tcount
          /\ pc = "read_n" => Len(cases) + t + 1 = tcount
    /\ pc \in {"read_elem", "outer", "inner", "swap", "sorted"} =>
          out = Expected(SubSeq(cases, 1, Len(cases) - 1))
    /\ pc = "print" =>
          /\ Len(out) >= Len(Expected(SubSeq(cases, 1, Len(cases) - 1)))
          /\ SubSeq(out, 1, Len(Expected(SubSeq(cases, 1, Len(cases) - 1))))
                = Expected(SubSeq(cases, 1, Len(cases) - 1))

\* At the end all T test cases are consumed, there are exactly T output lines,
\* and line k is the sorted form of input array k and of nothing else.
C3_Final ==
    pc = "done" =>
        /\ Len(cases) = tcount
        /\ Cardinality(Newlines(out)) = tcount
        /\ out = Expected(cases)

\* C3: on well-formed input with test-case count T >= 0 the program terminates
\* after processing all T test cases, having written exactly T lines, the k-th
\* being the sorted form of the k-th input array only; each test case is sorted
\* and printed to completion before the next is read.
C3_TerminatesWithTLines == [](C3_Ordered /\ C3_Final) /\ <>(pc = "done")

\* Two test cases with different arrays, both printed, program finished.
C3_Witness ==
    /\ pc = "done"
    /\ tcount = 2
    /\ cases = << <<7, -10>>, <<7>> >>
    /\ out = <<"-", "1", "0", " ", "7", "\n", "7", "\n">>

\* C4: the print loop writes the n sorted elements in index order, one space
\* between consecutive elements and none after the last (a space follows element
\* k iff k < n-1), and then exactly one newline.
C4_LineFormat ==
    /\ pc = "print" =>
          CurLine(out) = JoinSp(SubSeq(VecSeq, 1, i))
                           \o (IF 0 < i /\ i < n THEN <<" ">> ELSE <<>>)
    /\ CaseDone =>
          /\ IsSorted(VecSeq)
          /\ prints = n
          /\ out # <<>>
          /\ LastLine(out) = JoinSp(VecSeq) \o <<"\n">>
          /\ Cardinality(Newlines(out)) = Len(cases)

\* A three-element line with a two-character element has been written.
C4_Witness ==
    /\ CaseDone
    /\ n = 3
    /\ out = <<"-", "1", "0", " ", "0", " ", "7", "\n">>

\* C5: for n = 0 the sort and print loops run zero iterations and the line is
\* only a newline; for n = 1 the outer sort loop runs zero passes and the single
\* element is written unchanged.
C5_Boundary ==
    /\ (InCase /\ n = 0) =>
          passes = 0 /\ exchanges = 0 /\ prints = 0 /\ touched = {}
    /\ (CaseDone /\ n = 0) =>
          passes = 0 /\ exchanges = 0 /\ prints = 0 /\ LastLine(out) = <<"\n">>
    /\ ((InCase \/ CaseDone) /\ n = 1 /\ pc # "read_elem") =>
          passes = 0 /\ exchanges = 0 /\ VecSeq = Cur
    /\ (CaseDone /\ n = 1) =>
          prints = 1 /\ LastLine(out) = ToDecimal(Cur[1]) \o <<"\n">>

\* An empty test case and then a one-element test case have been printed.
C5_Witness ==
    /\ CaseDone
    /\ cases = << <<>>, <<-10>> >>
    /\ n = 1
    /\ out = <<"\n", "-", "1", "0", "\n">>

\* C6: idempotence.  The array left by the sort loops is what the loops make of
\* the input, and running the loops on it again leaves every element in place.
C6_Idempotent ==
    pc = "sorted" =>
        /\ vec = SortLoops(FromSeq(Cur), n)
        /\ SortLoops(vec, n) = vec

\* The sort changed a three-element input.
C6_Witness == pc = "sorted" /\ n = 3 /\ VecSeq # Cur /\ Cur[1] > Cur[3]

\* C7: for n >= 1 the sort makes exactly n-1 outer passes, stops with the outer
\* index at n-1, and makes at most n-1 exchanges, one per pass, whatever the
\* values are.
C7_PassesAndExchanges ==
    /\ (InSort /\ n >= 1) => exchanges <= n - 1 /\ passes <= n - 1
    /\ pc \in {"outer", "sorted"} => exchanges = passes /\ passes = i
    /\ pc \in {"inner", "swap"} => exchanges = passes - 1 /\ passes = i + 1
    /\ (pc = "sorted" /\ n >= 1) =>
          passes = n - 1 /\ i = n - 1 /\ exchanges <= n - 1

\* An already sorted three-element input still took two passes.
C7_Witness == pc = "sorted" /\ n = 3 /\ IsSorted(Cur) /\ passes = 2

\* m is the smallest index in lo..hi holding the minimum of v[lo..hi].
EarliestMin(v, lo, hi, m) ==
    /\ m \in lo..hi
    /\ \A k \in lo..hi : v[m] <= v[k] /\ (v[k] = v[m] => m <= k)

C8_Step ==
    /\ pc = "inner" => EarliestMin(vec, i, j - 1, minIndex)
    /\ pc = "swap" =>
          /\ 0 <= i /\ i <= n - 2
          /\ j = n
          /\ EarliestMin(vec, i, n - 1, minIndex)
          /\ vec' = [k \in 0..(n - 1) |->
                       IF k = i THEN vec[minIndex]
                       ELSE IF k = minIndex THEN vec[i] ELSE vec[k]]

\* C8: in every outer pass i, when the inner scan over j = i+1..n-1 finishes,
\* minIndex is the smallest index in i..n-1 holding the minimum of vec[i..n-1]
\* (ties go to the earliest index), and the pass then exchanges vec[i] with
\* vec[minIndex].
C8_SelectsEarliestMin == [][C8_Step]_vars

\* A scan finished on a tie for the minimum, away from position i.
C8_Witness ==
    /\ pc = "swap"
    /\ n = 3
    /\ i = 0
    /\ vec[1] = vec[2]
    /\ vec[1] < vec[0]
    /\ minIndex = 1

C9_Prefix ==
    InSort =>
        /\ \A k \in 0..(i - 2) : vec[k] <= vec[k + 1]
        /\ \A k \in 0..(i - 1) : \A m \in i..(n - 1) : vec[k] <= vec[m]

C9_Step ==
    /\ C9_Prefix
    /\ C9_Prefix'
    /\ (InSort /\ InSort') =>
          /\ \A k \in 0..(i - 1) : vec'[k] = vec[k]
          /\ \A k \in touched' : k >= i
    /\ pc = "swap" => minIndex >= i

\* C9: after pass i, positions 0..i are non-decreasing and each is <= every
\* element in i+1..n-1, and no later pass modifies them: a pass writes only
\* positions i and minIndex, both >= i.
C9_SortedPrefix == [][C9_Step]_vars

\* The second pass is about to exchange, with the first position settled.
C9_Witness == pc = "swap" /\ n = 3 /\ i = 1 /\ minIndex = 2 /\ vec[0] < vec[2]

\* C10: every index used to read or write vec lies in 0..n-1; for n = 0 there is
\* no access at all; i <= minIndex <= n-1 throughout each pass.
C10_IndexSafety ==
    /\ pc # "ub"
    /\ touched \subseteq 0..(n - 1)
    /\ DOMAIN vec = 0..(n - 1)
    /\ n = 0 => touched = {} /\ pc \notin {"inner", "swap"}
    /\ pc \in {"inner", "swap"} =>
          /\ 0 <= i /\ i <= minIndex /\ minIndex <= n - 1
          /\ i + 1 <= j /\ j <= n
    /\ pc \in {"read_elem", "print"} => 0 <= i /\ i <= n

\* The scan has just compared the last position with a minimum found later
\* than i.
C10_Witness ==
    /\ pc = "inner"
    /\ n = 3
    /\ j = 3
    /\ touched = {1, 2}

====
